---------------------------- MODULE Spec2Model ----------------------------
(***************************************************************************)
(* Model of the cooklang-chef core:                                        *)
(*   - cooklang-fs/src/lib.rs : FsIndex (lazy, cached recipe lookup over   *)
(*     a directory walk), all_recipes, recipe_images and                   *)
(*     check_recipe_images                                                 *)
(*   - cooklang/src/quantity.rs : Value / QuantityValue / Quantity         *)
(*     arithmetic and the memoised unit resolution                         *)
(*                                                                         *)
(* Representation of paths.  A file name is the sequence of its            *)
(* dot-separated parts ("x.cook" is <<"x","cook">>), a path is the         *)
(* sequence of its components ("r/a/x.cook" is                             *)
(* << <<"r">>, <<"a">>, <<"x","cook">> >>).  Path equality is component    *)
(* wise, as for std::path::Path.                                           *)
(***************************************************************************)
EXTENDS Integers, Sequences, FiniteSets, TLC

VARIABLES
  \* ---- FsIndex (cooklang-fs/src/lib.rs) ----
  fs,            \* the directory tree on disk (unchanged during a run)
  max_depth,     \* FsIndex::new's max_depth
  walker,        \* [items, pos]: the walkdir iterator and its cursor
  recipes,       \* Cache.recipes : stem -> Seq(path)
  non_existent,  \* Cache.non_existent : set of input strings
  hist,          \* the calls made so far, oldest first (observation only)
  \* ---- Value / QuantityValue (cooklang/src/quantity.rs) ----
  va, vb,        \* two QuantityValues
  vout,          \* the last operation applied to them and its result
  \* ---- Quantity (cooklang/src/quantity.rs) ----
  qa, qb,        \* two Quantities (self and rhs), with their unit cells
  qout,          \* the last operation applied to them and its result
  \* ---- QuantityUnit.info shared by threads (cooklang/src/quantity.rs) ----
  ucell,         \* the OnceCell<UnitInfo>: [state, value]
  uthreads,      \* per thread: where it is in unit_or_parse, what it got
  ulog,          \* how the unit was built, the lookups and the stores made
  \* ---- check_recipe_images (cooklang-fs/src/lib.rs) ----
  cimages,       \* the images argument
  crecipe,       \* the recipe argument: its sections and their steps
  cout,          \* the call made and its result
  \* ---- recipe_images (cooklang-fs/src/lib.rs) ----
  idir,          \* the entries of the recipe's parent directory
  ipath,         \* the path argument
  iout,          \* the call made and its result
  \* ---- all_recipes (cooklang-fs/src/lib.rs) ----
  listing        \* the iterator all_recipes returned and what it yielded

fsvars == <<fs, max_depth, walker, recipes, non_existent, hist>>

valvars == <<va, vb, vout>>

qtyvars == <<qa, qb, qout>>

unitvars == <<ucell, uthreads, ulog>>

chkvars == <<cimages, crecipe, cout>>

imgvars == <<idir, ipath, iout>>

vars == <<fs, max_depth, walker, recipes, non_existent, hist,
          va, vb, vout, qa, qb, qout, ucell, uthreads, ulog,
          cimages, crecipe, cout, idir, ipath, iout, listing>>

---------------------------------------------------------------------------
\* Bounds of the model

\* how many get/contains calls one run makes
MaxCalls == 3

\* the largest max_depth a run passes to FsIndex::new
MaxDepth == 2

\* numbers are 1000, 2000, .., 1000 * MaxNum
MaxNum == 2

\* the longest ByServings list
MaxServings == 2

\* the threads that share one QuantityUnit
NThreads == 2

\* how many times each thread calls unit_or_parse
MaxUnitCalls == 2

---------------------------------------------------------------------------
\* Paths (camino::Utf8Path as the code uses it)

\* Utf8Path::file_name: None for the empty path
HasFileName(p) == Len(p) > 0

FileName(p) == p[Len(p)]

\* Utf8Path::file_stem of a file name: the name without its last ".ext"
NameStem(n) == IF Len(n) > 1 THEN SubSeq(n, 1, Len(n) - 1) ELSE n

\* Utf8Path::extension of a file name, <<>> for None
NameExt(n) == IF Len(n) > 1 THEN <<n[Len(n)]>> ELSE <<>>

FileStem(p) == NameStem(FileName(p))

\* Utf8Path::join for a relative right-hand side
Join(base, p) == base \o p

\* Utf8Path::with_extension("cook")
WithExtensionCook(p) ==
  IF HasFileName(p)
    THEN SubSeq(p, 1, Len(p) - 1) \o <<NameStem(FileName(p)) \o <<"cook">>>>
    ELSE p

---------------------------------------------------------------------------
\* The directory trees and the lookups a run chooses from

base_path == << <<"r">> >>

D(p) == [path |-> p, kind |-> "dir"]
F(p) == [path |-> p, kind |-> "file"]

\* r/{y.cook, n.txt, a/{x.cook}, b/{x.cook, z.cook}}
TreeDup ==
  { D(<< <<"r">> >>),
    F(<< <<"r">>, <<"y","cook">> >>),
    F(<< <<"r">>, <<"n","txt">> >>),
    D(<< <<"r">>, <<"a">> >>),
    F(<< <<"r">>, <<"a">>, <<"x","cook">> >>),
    D(<< <<"r">>, <<"b">> >>),
    F(<< <<"r">>, <<"b">>, <<"x","cook">> >>),
    F(<< <<"r">>, <<"b">>, <<"z","cook">> >>) }

\* r/{y.cook, raw (a file with a non-UTF8 name), bad/ (unreadable), a/{x.cook}}
TreeFault ==
  { D(<< <<"r">> >>),
    F(<< <<"r">>, <<"y","cook">> >>),
    [path |-> << <<"r">>, <<"raw">> >>, kind |-> "rawfile"],
    [path |-> << <<"r">>, <<"bad">> >>, kind |-> "baddir"],
    D(<< <<"r">>, <<"a">> >>),
    F(<< <<"r">>, <<"a">>, <<"x","cook">> >>) }

Trees == {TreeDup, TreeFault}

\* the input strings: "x", "y", "a/x", "r/a/x.cook", "m", ""
Inputs ==
  { << <<"x">> >>, << <<"y">> >>,
    << <<"a">>, <<"x">> >>,
    << <<"r">>, <<"a">>, <<"x","cook">> >>,
    << <<"m">> >>,
    << >> }

\* byte order of the file names that occur (OsStr::cmp)
NameOrder ==
  << <<"a">>, <<"b">>, <<"bad">>, <<"n","txt">>, <<"raw">>,
     <<"x","cook">>, <<"y","cook">>, <<"z","cook">> >>

NameRank(n) == CHOOSE i \in 1..Len(NameOrder) : NameOrder[i] = n

---------------------------------------------------------------------------
\* walkdir::WalkDir::new(base_path).max_depth(max_depth).sort_by(..)

\* FileType::is_file
IsFileType(e) == e.kind \in {"file", "rawfile"}

IsDirType(e) == e.kind \in {"dir", "baddir"}

\* the comparator of FsIndex::new: files first, then by name
FilesFirstLess(a, b) ==
  IF IsFileType(a) /\ ~IsFileType(b) THEN TRUE
  ELSE IF ~IsFileType(a) /\ IsFileType(b) THEN FALSE
  ELSE NameRank(FileName(a.path)) < NameRank(FileName(b.path))

\* the comparator of all_recipes: sort_by_file_name
ByNameLess(a, b) == NameRank(FileName(a.path)) < NameRank(FileName(b.path))

Children(tree, dir) ==
  { e \in tree : Len(e.path) = Len(dir.path) + 1
                 /\ SubSeq(e.path, 1, Len(dir.path)) = dir.path }

RECURSIVE SortBy(_, _)
SortBy(S, filesFirst) ==
  IF S = {} THEN <<>>
  ELSE LET m == CHOOSE x \in S : \A y \in S \ {x} :
                  IF filesFirst THEN FilesFirstLess(x, y) ELSE ByNameLess(x, y)
       IN  <<m>> \o SortBy(S \ {m}, filesFirst)

\* what the iterator yields for one entry: Ok(entry) or, for an entry whose
\* path is not UTF-8, an entry that DirEntry::try_from rejects
Item(e) ==
  [kind |-> IF e.kind = "rawfile" THEN "nonutf8"
            ELSE IF IsDirType(e) THEN "dir" ELSE "file",
   path |-> e.path]

RECURSIVE WalkEntry(_, _, _, _, _), WalkList(_, _, _, _, _)
\* pre-order walk of entry e at the given depth
WalkEntry(tree, e, depth, maxd, filesFirst) ==
  <<Item(e)>> \o
    ( IF IsDirType(e) /\ depth < maxd
        THEN IF e.kind = "baddir"
               THEN << [kind |-> "ioerr", path |-> e.path] >>
               ELSE WalkList(tree, SortBy(Children(tree, e), filesFirst),
                             depth + 1, maxd, filesFirst)
        ELSE <<>> )
WalkList(tree, es, depth, maxd, filesFirst) ==
  IF es = <<>> THEN <<>>
  ELSE WalkEntry(tree, Head(es), depth, maxd, filesFirst)
       \o WalkList(tree, Tail(es), depth, maxd, filesFirst)

Root(tree) == CHOOSE e \in tree : e.path = base_path

\* the whole sequence the walker of FsIndex::new yields
WalkDir(tree, maxd) == WalkEntry(tree, Root(tree), 0, maxd, TRUE)

\* Path::is_file on the tree
PathIsFile(tree, p) == \E e \in tree : e.kind = "file" /\ e.path = p

---------------------------------------------------------------------------
\* Cache

\* is_cooklang_file on an entry the walker yielded
is_cooklang_file(it) ==
  it.kind = "file" /\ NameExt(FileName(it.path)) = <<"cook">>

\* process_entry: Some((stem, path)) for a recipe file, None otherwise
process_entry(it) ==
  IF ~is_cooklang_file(it) THEN [some |-> FALSE]
  ELSE [some |-> TRUE, name |-> FileStem(it.path), path |-> it.path]

\* Cache::get: the first cached path under `name` that equals `path`
CacheGet(rs, name, path) ==
  IF name \notin DOMAIN rs THEN [some |-> FALSE]
  ELSE IF \E i \in 1..Len(rs[name]) : rs[name][i] = path
    THEN [some |-> TRUE,
          path |-> rs[name][CHOOSE i \in 1..Len(rs[name]) :
                      /\ rs[name][i] = path
                      /\ \A j \in 1..(i-1) : rs[name][j] # path]]
    ELSE [some |-> FALSE]

\* Cache::insert: push path to the list of `name`
CacheInsert(rs, name, path) ==
  [k \in DOMAIN rs \cup {name} |->
     IF k = name
       THEN (IF name \in DOMAIN rs THEN rs[name] ELSE <<>>) \o <<path>>
       ELSE rs[k]]

\* a negative cache that never answers
NegativeHit_Never(ne, recipe) == FALSE

\* cache.non_existent.contains(recipe)
NegativeHit(ne, recipe) == recipe \in ne

\* a negative cache keyed by the stem: every spelling of it becomes absent
MarkNonExistent_ByStem(ne, recipe) ==
  ne \cup { t \in Inputs : HasFileName(t) /\ FileStem(t) = FileStem(recipe) }

\* Cache::mark_non_existent
MarkNonExistent(ne, recipe) == ne \cup {recipe}

EmptyMap == [k \in {} |-> <<>>]

---------------------------------------------------------------------------
\* FsIndex::get

Ok(p) == [tag |-> "Ok", path |-> p]
ErrNotFound(recipe) == [tag |-> "NotFound", name |-> recipe]
ErrInvalidName(recipe) == [tag |-> "InvalidName", name |-> recipe]
ErrWalk == [tag |-> "Walk"]
ErrNonUtf8 == [tag |-> "NonUtf8"]

RECURSIVE WalkLoop_ErrorEndsWalk(_, _, _, _)
\* a loop that takes a failing entry for the end of the walk
WalkLoop_ErrorEndsWalk(items, pos, rs, name) ==
  IF pos >= Len(items)
    THEN [done |-> FALSE, pos |-> pos, recipes |-> rs]
  ELSE LET it == items[pos + 1] IN
    IF it.kind \in {"ioerr", "nonutf8"}
      THEN [done |-> FALSE, pos |-> pos + 1, recipes |-> rs]
    ELSE LET pe == process_entry(it) IN
      IF ~pe.some THEN WalkLoop_ErrorEndsWalk(items, pos + 1, rs, name)
      ELSE LET rs2 == CacheInsert(rs, pe.name, pe.path) IN
        IF pe.name = name
          THEN [done |-> TRUE, result |-> Ok(pe.path), pos |-> pos + 1,
                recipes |-> rs2]
          ELSE WalkLoop_ErrorEndsWalk(items, pos + 1, rs2, name)

RECURSIVE WalkLoop(_, _, _, _)
\* the `while let Some(entry) = walker.next()` loop of get, from cursor pos
WalkLoop(items, pos, rs, name) ==
  IF pos >= Len(items)
    THEN [done |-> FALSE, pos |-> pos, recipes |-> rs]
  ELSE LET it == items[pos + 1] IN
    IF it.kind = "ioerr"
      THEN [done |-> TRUE, result |-> ErrWalk, pos |-> pos + 1, recipes |-> rs]
    ELSE IF it.kind = "nonutf8"
      THEN [done |-> TRUE, result |-> ErrNonUtf8, pos |-> pos + 1, recipes |-> rs]
    ELSE LET pe == process_entry(it) IN
      IF ~pe.some THEN WalkLoop(items, pos + 1, rs, name)
      ELSE LET rs2 == CacheInsert(rs, pe.name, pe.path) IN
        IF pe.name = name
          THEN [done |-> TRUE, result |-> Ok(pe.path), pos |-> pos + 1,
                recipes |-> rs2]
          ELSE WalkLoop(items, pos + 1, rs2, name)

\* the direct-file probe: base_path.join(recipe).with_extension("cook")
PossiblePath(recipe) == WithExtensionCook(Join(base_path, recipe))

\* the whole of FsIndex::get(recipe) on the state (tree, w, rs, ne):
\* the result and the state it leaves, with what the call touched
GetOutcome(tree, w, rs, ne, recipe) ==
  LET same == [pos |-> w.pos, recipes |-> rs, non_existent |-> ne,
               hit |-> FALSE, neg |-> FALSE, probed |-> FALSE]
  IN
  IF ~HasFileName(recipe)
    THEN [same EXCEPT !.hit = FALSE] @@ [result |-> ErrInvalidName(recipe)]
  ELSE
    LET name == FileStem(recipe)
        c == CacheGet(rs, name, recipe)
    IN
    IF c.some
      THEN [same EXCEPT !.hit = TRUE] @@ [result |-> Ok(c.path)]
    ELSE IF NegativeHit(ne, recipe)
      THEN [same EXCEPT !.neg = TRUE] @@ [result |-> ErrNotFound(recipe)]
    ELSE IF PathIsFile(tree, PossiblePath(recipe))
      THEN [same EXCEPT !.probed = TRUE,
                        !.recipes = CacheInsert(rs, name, PossiblePath(recipe))]
           @@ [result |-> Ok(PossiblePath(recipe))]
    ELSE
      LET l == WalkLoop(w.items, w.pos, rs, name) IN
      IF l.done
        THEN [same EXCEPT !.probed = TRUE, !.pos = l.pos, !.recipes = l.recipes]
             @@ [result |-> l.result]
        ELSE [same EXCEPT !.probed = TRUE, !.pos = l.pos, !.recipes = l.recipes,
                          !.non_existent = MarkNonExistent(ne, recipe)]
             @@ [result |-> ErrNotFound(recipe)]

\* one call on a walker that starts again from the first entry
Call_Rewind(op, recipe) ==
  LET o == GetOutcome(fs, [walker EXCEPT !.pos = 0], recipes, non_existent,
                      recipe)
  IN
  /\ Len(hist) < MaxCalls
  /\ walker' = [walker EXCEPT !.pos = o.pos]
  /\ recipes' = o.recipes
  /\ non_existent' = o.non_existent
  /\ hist' = Append(hist,
       [op |-> op, input |-> recipe, result |-> o.result,
        ret |-> IF op = "contains" THEN [tag |-> "Bool", value |-> o.result.tag = "Ok"]
                ELSE o.result,
        pos0 |-> walker.pos, pos1 |-> o.pos,
        hit |-> o.hit, neg |-> o.neg, probed |-> o.probed,
        recipes0 |-> recipes, non_existent0 |-> non_existent])
  /\ UNCHANGED <<fs, max_depth>>
  /\ UNCHANGED <<valvars, qtyvars, unitvars, chkvars, imgvars, listing>>

\* one call, recorded in hist with the state it started from
Call(op, recipe) ==
  LET o == GetOutcome(fs, walker, recipes, non_existent, recipe) IN
  /\ Len(hist) < MaxCalls
  /\ walker' = [walker EXCEPT !.pos = o.pos]
  /\ recipes' = o.recipes
  /\ non_existent' = o.non_existent
  /\ hist' = Append(hist,
       [op |-> op, input |-> recipe, result |-> o.result,
        ret |-> IF op = "contains" THEN [tag |-> "Bool", value |-> o.result.tag = "Ok"]
                ELSE o.result,
        pos0 |-> walker.pos, pos1 |-> o.pos,
        hit |-> o.hit, neg |-> o.neg, probed |-> o.probed,
        recipes0 |-> recipes, non_existent0 |-> non_existent])
  /\ UNCHANGED <<fs, max_depth>>
  /\ UNCHANGED <<valvars, qtyvars, unitvars, chkvars, imgvars, listing>>

\* FsIndex::get
Get(recipe) == Call("get", recipe)

\* FsIndex::contains
Contains(recipe) == Call("contains", recipe)

\* no Value, no Quantity
IdleVal == va = [t |-> "none"] /\ vb = [t |-> "none"] /\ vout = [op |-> "none"]

IdleUnit ==
  /\ ucell = [state |-> "none"]
  /\ uthreads = <<>>
  /\ ulog = [ctor |-> "none"]

IdleQty == qa = [t |-> "none"] /\ qb = [t |-> "none"] /\ qout = [op |-> "none"]

\* no image list checked, no image directory read, no listing made
IdleChk == cimages = <<>> /\ crecipe = [sections |-> <<>>] /\ cout = [op |-> "none"]

IdleImg == idir = {} /\ ipath = <<>> /\ iout = [op |-> "none"]

IdleList == listing = [op |-> "none"]

\* FsIndex::new
InitFs ==
  /\ IdleVal /\ IdleQty /\ IdleUnit
  /\ IdleChk /\ IdleImg /\ IdleList
  /\ fs \in Trees
  /\ max_depth \in 0..MaxDepth
  /\ walker = [items |-> WalkDir(fs, max_depth), pos |-> 0]
  /\ recipes = EmptyMap
  /\ non_existent = {}
  /\ hist = <<>>

NextFs ==
  \/ \E recipe \in Inputs : Get(recipe)
  \/ \E recipe \in Inputs : Contains(recipe)

SpecFs == InitFs /\ [][NextFs]_vars

---------------------------------------------------------------------------
\* Properties of FsIndex (checked under SpecFs)

Calls == 1..Len(hist)

\* the recipe files the walker of this index yields, in its order
WalkedRecipes(name) ==
  SelectSeq(walker.items,
            LAMBDA it : is_cooklang_file(it) /\ FileStem(it.path) = name)

\* the recipe files with stem `name` still ahead of cursor position pos
AheadOf(pos, name) ==
  { k \in (pos + 1)..Len(walker.items) :
      is_cooklang_file(walker.items[k]) /\ FileStem(walker.items[k].path) = name }

\* C1: if get(x) succeeds, an immediately following get(x) returns the
\* identical path from the cache: the cursor does not move, no direct-file
\* probe is made and no entry is pulled from the walker.
C1_RepeatedGetIsCacheHit ==
  \A i \in Calls : \A j \in Calls :
    ( /\ j = i + 1
      /\ hist[i].op = "get" /\ hist[j].op = "get"
      /\ hist[i].input = hist[j].input
      /\ hist[i].result.tag = "Ok" )
    => ( /\ hist[j].result = hist[i].result
         /\ hist[j].pos1 = hist[j].pos0
         /\ hist[j].hit
         /\ ~hist[j].probed )

\* C2: get(name) fails with NotFound only when no recipe file with the
\* stem of name is in the cache or still ahead of the walk cursor; a file an
\* earlier lookup walked past and cached is returned by a later get.
C2_NotFoundOnlyIfUnknown ==
  \A i \in Calls :
    ( hist[i].op = "get" /\ hist[i].result.tag = "NotFound" )
    => LET name == FileStem(hist[i].input) IN
       /\ name \notin DOMAIN hist[i].recipes0
       /\ AheadOf(hist[i].pos0, name) = {}

\* C3 as claimed: once s is in the absent set, every later get(s) fails with
\* NotFound, without advancing the cursor and without a direct-file probe.
C3_AbsentAlwaysNotFound ==
  \A j \in Calls :
    ( hist[j].op = "get" /\ hist[j].input \in hist[j].non_existent0 )
    => ( /\ hist[j].result = ErrNotFound(hist[j].input)
         /\ hist[j].pos1 = hist[j].pos0
         /\ ~hist[j].probed )

\* C3 as amended: once s is in the absent set, every later get(s) leaves the
\* cursor where it is and makes no direct-file probe; it fails with NotFound
\* unless a path equal to s has been cached since, which it then returns.
C3_AbsentNeverWalksAgain ==
  \A j \in Calls :
    ( hist[j].op = "get" /\ hist[j].input \in hist[j].non_existent0 )
    => ( /\ hist[j].pos1 = hist[j].pos0
         /\ ~hist[j].probed
         /\ \/ hist[j].result = ErrNotFound(hist[j].input)
            \/ hist[j].hit /\ hist[j].result = Ok(hist[j].input) )

\* a get of an absent name that was answered by the negative cache, after
\* the walk had been exhausted by an earlier get of the same name
C3_Witness ==
  \E i \in Calls : \E j \in Calls :
    /\ i < j
    /\ hist[i].op = "get" /\ hist[j].op = "get"
    /\ hist[i].input = hist[j].input
    /\ hist[i].result.tag = "NotFound" /\ ~hist[i].neg
    /\ hist[i].pos1 = Len(walker.items)
    /\ hist[j].neg /\ hist[j].result.tag = "NotFound"

\* an input that is a bare stem: one component, no extension
IsStem(recipe) == Len(recipe) = 1 /\ Len(recipe[1]) = 1

\* C4: when two or more recipe files within max_depth share a stem,
\* get(stem) returns the first of them in the files-first, name-sorted
\* traversal order, whatever lookups were made before.
C4_FirstInOrderWins ==
  \A i \in Calls :
    ( /\ hist[i].op = "get"
      /\ IsStem(hist[i].input)
      /\ Len(WalkedRecipes(FileStem(hist[i].input))) >= 2
      /\ hist[i].result.tag = "Ok" )
    => hist[i].result.path = WalkedRecipes(FileStem(hist[i].input))[1].path

---------------------------------------------------------------------------
\* Value, ScalableValue, QuantityValue (cooklang/src/quantity.rs)
\*
\* f64 amounts are modelled by integers (no NaN, no infinities, no rounding).

\* enum Value
Number(n) == [t |-> "Number", n |-> n]
Range(s, e) == [t |-> "Range", start |-> s, end |-> e]
Text(x) == [t |-> "Text", s |-> x]

\* enum ScalableValue
Linear(v) == [t |-> "Linear", v |-> v]
ByServings(vs) == [t |-> "ByServings", vs |-> vs]

\* enum QuantityValue
Fixed(v) == [t |-> "Fixed", v |-> v]
Scalable(sv) == [t |-> "Scalable", v |-> sv]

\* Result: Ok(value) / Err(error)
ROk(v) == [ok |-> TRUE, value |-> v]
RErr(e) == [ok |-> FALSE, err |-> e]

\* struct TextValueError(Value)
TextValueError(v) == [e |-> "TextValueError", value |-> v]

\* struct NotScaled(ScalableValue)
NotScaled(sv) == [e |-> "NotScaled", value |-> sv]

\* the inputs
Nums == { 1000 * k : k \in 1..MaxNum }

Texts == {"some", "a pinch"}

Values ==
  { Number(n) : n \in Nums }
    \cup { Range(x, y) : x \in Nums, y \in Nums }
    \cup { Text(x) : x \in Texts }

ServingValues == { Number(1000), Text("some") }

ServingLists == UNION { [1..n -> ServingValues] : n \in 1..MaxServings }

ScalableValues ==
  { Linear(v) : v \in Values } \cup { ByServings(l) : l \in ServingLists }

QuantityValues ==
  { Fixed(v) : v \in Values } \cup { Scalable(sv) : sv \in ScalableValues }

\* Value::is_text
is_text(v) == v.t = "Text"

\* Value::try_add with the Number + Range arm moving only the start
Value_try_add_StartOnly(a, b) ==
  IF a.t = "Number" /\ b.t = "Number" THEN ROk(Number(a.n + b.n))
  ELSE IF a.t = "Number" /\ b.t = "Range"
    THEN ROk(Range(b.start + a.n, b.end))
  ELSE IF a.t = "Range" /\ b.t = "Number"
    THEN ROk(Range(a.start + b.n, a.end + b.n))
  ELSE IF a.t = "Range" /\ b.t = "Range"
    THEN ROk(Range(a.start + b.start, a.end + b.end))
  ELSE IF a.t = "Text" THEN RErr(TextValueError(a))
  ELSE RErr(TextValueError(b))

\* Value::try_add with the two Text patterns in the other order
Value_try_add_RhsFirst(a, b) ==
  IF a.t = "Number" /\ b.t = "Number" THEN ROk(Number(a.n + b.n))
  ELSE IF a.t = "Number" /\ b.t = "Range"
    THEN ROk(Range(b.start + a.n, b.end + a.n))
  ELSE IF a.t = "Range" /\ b.t = "Number"
    THEN ROk(Range(a.start + b.n, a.end + b.n))
  ELSE IF a.t = "Range" /\ b.t = "Range"
    THEN ROk(Range(a.start + b.start, a.end + b.end))
  ELSE IF b.t = "Text" THEN RErr(TextValueError(b))
  ELSE RErr(TextValueError(a))

\* Value::try_add: the match on (self, rhs), arm by arm
Value_try_add(a, b) ==
  IF a.t = "Number" /\ b.t = "Number" THEN ROk(Number(a.n + b.n))
  ELSE IF a.t = "Number" /\ b.t = "Range"
    THEN ROk(Range(b.start + a.n, b.end + a.n))
  ELSE IF a.t = "Range" /\ b.t = "Number"
    THEN ROk(Range(a.start + b.n, a.end + b.n))
  ELSE IF a.t = "Range" /\ b.t = "Range"
    THEN ROk(Range(a.start + b.start, a.end + b.end))
  ELSE IF a.t = "Text" THEN RErr(TextValueError(a))
  ELSE RErr(TextValueError(b))

\* extract_value that also unwraps a Linear value
extract_value_Linear(qv) ==
  IF qv.t = "Fixed" THEN ROk(qv.v)
  ELSE IF qv.v.t = "Linear" THEN ROk(qv.v.v)
  ELSE RErr(NotScaled(qv.v))

\* QuantityValue::extract_value
extract_value(qv) ==
  IF qv.t = "Fixed" THEN ROk(qv.v) ELSE RErr(NotScaled(qv.v))

\* QuantityValue::try_add:
\*   self.extract_value()?.try_add(rhs.extract_value()?)? wrapped in Fixed
QuantityValue_try_add(a, b) ==
  LET ea == extract_value(a) IN
  IF ~ea.ok THEN ea
  ELSE LET eb == extract_value(b) IN
    IF ~eb.ok THEN eb
    ELSE LET r == Value_try_add(ea.value, eb.value) IN
      IF ~r.ok THEN r ELSE ROk(Fixed(r.value))

\* QuantityValue::contains_text_value
contains_text_value(qv) ==
  IF qv.t = "Fixed" THEN is_text(qv.v)
  ELSE IF qv.v.t = "Linear" THEN is_text(qv.v.v)
  ELSE \E i \in 1..Len(qv.v.vs) : is_text(qv.v.vs[i])

\* va.extract_value()
ExtractValue ==
  /\ vout' = [op |-> "extract_value", a |-> va, result |-> extract_value(va)]
  /\ UNCHANGED <<va, vb, fsvars, qtyvars, unitvars, chkvars, imgvars, listing>>

\* the Value::try_add call of QuantityValue::try_add, on two Fixed values
ValueTryAdd ==
  /\ va.t = "Fixed" /\ vb.t = "Fixed"
  /\ vout' = [op |-> "value_try_add", a |-> va.v, b |-> vb.v,
              result |-> Value_try_add(va.v, vb.v)]
  /\ UNCHANGED <<va, vb, fsvars, qtyvars, unitvars, chkvars, imgvars, listing>>

\* va.try_add(&vb)
QuantityValueTryAdd ==
  /\ vout' = [op |-> "qv_try_add", a |-> va, b |-> vb,
              result |-> QuantityValue_try_add(va, vb)]
  /\ UNCHANGED <<va, vb, fsvars, qtyvars, unitvars, chkvars, imgvars, listing>>

IdleFs ==
  /\ fs = {} /\ max_depth = 0 /\ walker = [items |-> <<>>, pos |-> 0]
  /\ recipes = EmptyMap /\ non_existent = {} /\ hist = <<>>

InitVal ==
  /\ IdleFs /\ IdleQty /\ IdleUnit
  /\ IdleChk /\ IdleImg /\ IdleList
  /\ va \in QuantityValues
  /\ vb \in QuantityValues
  /\ vout = [op |-> "none"]

NextVal == ExtractValue \/ ValueTryAdd \/ QuantityValueTryAdd

SpecVal == InitVal /\ [][NextVal]_vars

---------------------------------------------------------------------------
\* Properties of Value and QuantityValue (checked under SpecVal)

IsNumeric(v) == v.t \in {"Number", "Range"}

\* the sum the claim gives for two numeric values
NumericSum(a, b) ==
  IF a.t = "Number" /\ b.t = "Number" THEN Number(a.n + b.n)
  ELSE IF a.t = "Range" /\ b.t = "Range"
    THEN Range(a.start + b.start, a.end + b.end)
  ELSE LET r == IF a.t = "Range" THEN a ELSE b
           n == IF a.t = "Range" THEN b.n ELSE a.n
       IN  Range(r.start + n, r.end + n)

\* C8: for Number or Range operands Value::try_add succeeds, gives
\* Number(x+y), the Range shifted by the Number (either order) or the
\* Range of the sums, and gives the same for the operands swapped.
C8_NumericAddCommutes ==
  ( vout.op = "value_try_add" /\ IsNumeric(vout.a) /\ IsNumeric(vout.b) )
  => ( /\ vout.result = ROk(NumericSum(vout.a, vout.b))
       /\ Value_try_add(vout.b, vout.a) = vout.result )

\* a Number added to a Range with distinct endpoints
C8_Witness ==
  /\ vout.op = "value_try_add"
  /\ vout.a.t = "Number" /\ vout.b.t = "Range"
  /\ vout.b.start # vout.b.end
  /\ vout.result.ok

\* C9: Value::try_add fails with TextValueError whenever an operand is
\* Text; the error carries a when a is Text, otherwise b.
C9_TextOperandFails ==
  ( vout.op = "value_try_add" /\ (is_text(vout.a) \/ is_text(vout.b)) )
  => ( /\ ~vout.result.ok
       /\ vout.result.err =
            TextValueError(IF is_text(vout.a) THEN vout.a ELSE vout.b) )

\* both operands Text, with different texts
C9_Witness ==
  /\ vout.op = "value_try_add"
  /\ is_text(vout.a) /\ is_text(vout.b) /\ vout.a # vout.b
  /\ ~vout.result.ok

\* C10: extract_value succeeds exactly for Fixed, returning the wrapped
\* Value, and fails with NotScaled carrying the scalable value otherwise;
\* QuantityValue::try_add succeeds only for two Fixed operands, its result
\* is Fixed, and a Scalable operand makes it fail with NotScaled (a's value
\* when a is Scalable, else b's), also when the other operand is Text.
C10_OnlyFixedExtracts ==
  /\ vout.op = "extract_value"
     => ( /\ vout.a.t = "Fixed" => vout.result = ROk(vout.a.v)
          /\ vout.a.t = "Scalable" => vout.result = RErr(NotScaled(vout.a.v)) )
  /\ vout.op = "qv_try_add"
     => ( /\ vout.result.ok
             => ( /\ vout.a.t = "Fixed" /\ vout.b.t = "Fixed"
                  /\ vout.result.value.t = "Fixed" )
          /\ vout.a.t = "Scalable"
             => vout.result = RErr(NotScaled(vout.a.v))
          /\ ( vout.a.t = "Fixed" /\ vout.b.t = "Scalable" )
             => vout.result = RErr(NotScaled(vout.b.v)) )

\* a Fixed Text added to a Scalable value: NotScaled, not TextValueError
C10_Witness ==
  /\ vout.op = "qv_try_add"
  /\ vout.a.t = "Fixed" /\ is_text(vout.a.v)
  /\ vout.b.t = "Scalable" /\ vout.b.v.t = "Linear"
  /\ vout.result = RErr(NotScaled(vout.b.v))

---------------------------------------------------------------------------
\* Converter (crate::convert, consumed through get_unit / convert)

\* Unit: a symbol, its physical quantity and its ratio to the base unit
Unit(sym, pq, ratio) == [symbol |-> sym, physical_quantity |-> pq, ratio |-> ratio]

\* the units the converter knows, by text
ConverterUnits ==
  [x \in {"g", "kg", "ml"} |->
     IF x = "g" THEN Unit("g", "mass", 1)
     ELSE IF x = "kg" THEN Unit("kg", "mass", 1000)
     ELSE Unit("ml", "volume", 1)]

\* Converter::get_unit
get_unit(text) ==
  IF text \in DOMAIN ConverterUnits THEN ROk(ConverterUnits[text])
  ELSE RErr([e |-> "UnknownUnit", text |-> text])

\* the conversion of one Value from unit `from` to unit `to`
ConvertValue(v, from, to) ==
  IF v.t = "Number" THEN Number((v.n * from.ratio) \div to.ratio)
  ELSE IF v.t = "Range"
    THEN Range((v.start * from.ratio) \div to.ratio,
               (v.end * from.ratio) \div to.ratio)
  ELSE v

\* Converter::convert(quantity, to) for a quantity whose unit resolved to
\* `from`: a text amount cannot be converted; whether a scalable amount is
\* converted or rejected is the converter's choice (strict)
Convert(q, from, to, strict) ==
  IF contains_text_value(q.value) THEN RErr([e |-> "ConvertError"])
  ELSE IF q.value.t = "Fixed"
    THEN ROk([value |-> Fixed(ConvertValue(q.value.v, from, to)),
              unit |-> [some |-> TRUE, text |-> to.symbol,
                        info |-> [t |-> "Known", unit |-> to]]])
  ELSE IF strict THEN RErr([e |-> "ConvertError"])
  ELSE ROk([value |->
              Scalable(IF q.value.v.t = "Linear"
                         THEN Linear(ConvertValue(q.value.v.v, from, to))
                         ELSE ByServings([i \in 1..Len(q.value.v.vs) |->
                                ConvertValue(q.value.v.vs[i], from, to)])),
            unit |-> [some |-> TRUE, text |-> to.symbol,
                      info |-> [t |-> "Known", unit |-> to]]])

---------------------------------------------------------------------------
\* QuantityUnit, UnitInfo, Quantity (cooklang/src/quantity.rs)

\* enum UnitInfo, and the empty OnceCell
Known(u) == [t |-> "Known", unit |-> u]
Unknown == [t |-> "Unknown"]
Unset == [t |-> "Unset"]

\* Option<QuantityUnit>
NoUnit == [some |-> FALSE]
SomeUnit(text, info) == [some |-> TRUE, text |-> text, info |-> info]

\* UnitInfo::new
UnitInfo_new(text) ==
  IF get_unit(text).ok THEN Known(get_unit(text).value) ELSE Unknown

\* QuantityUnit::unit_or_parse: the unit with its cell initialised
unit_or_parse(u) ==
  IF u.info.t = "Unset" THEN [u EXCEPT !.info = UnitInfo_new(u.text)] ELSE u

\* enum IncompatibleUnits
MissingUnit(side, u) == [e |-> "MissingUnit", side |-> side, found |-> u]
DifferentPhysicalQuantities(a, b) ==
  [e |-> "DifferentPhysicalQuantities", a |-> a, b |-> b]
UnknownDifferentUnits(a, b) == [e |-> "UnknownDifferentUnits", a |-> a, b |-> b]

\* Option<&Arc<Unit>>
None == [some |-> FALSE]
Some(u) == [some |-> TRUE, unit |-> u]

\* is_compatible with the second unit taken as the common unit
is_compatible_Rhs(a, b) ==
  IF ~a.unit.some /\ ~b.unit.some
    THEN [result |-> ROk(None), a |-> a, b |-> b]
  ELSE IF ~a.unit.some
    THEN [result |-> RErr(MissingUnit("Right", b.unit)), a |-> a, b |-> b]
  ELSE IF ~b.unit.some
    THEN [result |-> RErr(MissingUnit("Left", a.unit)), a |-> a, b |-> b]
  ELSE
    LET au == unit_or_parse(a.unit)
        bu == unit_or_parse(b.unit)
        a2 == [a EXCEPT !.unit = au]
        b2 == [b EXCEPT !.unit = bu]
    IN
    IF au.info.t = "Known" /\ bu.info.t = "Known"
      THEN IF au.info.unit.physical_quantity # bu.info.unit.physical_quantity
             THEN [result |-> RErr(DifferentPhysicalQuantities(
                                     au.info.unit.physical_quantity,
                                     bu.info.unit.physical_quantity)),
                   a |-> a2, b |-> b2]
             ELSE [result |-> ROk(Some(bu.info.unit)), a |-> a2, b |-> b2]
      ELSE IF au.text # bu.text
             THEN [result |-> RErr(UnknownDifferentUnits(au.text, bu.text)),
                   a |-> a2, b |-> b2]
             ELSE [result |-> ROk(None), a |-> a2, b |-> b2]

\* Quantity::is_compatible(self = a, rhs = b): its result, and a and b with
\* the unit cells that unit_or_parse initialised
is_compatible(a, b) ==
  IF ~a.unit.some /\ ~b.unit.some
    THEN [result |-> ROk(None), a |-> a, b |-> b]
  ELSE IF ~a.unit.some
    THEN [result |-> RErr(MissingUnit("Right", b.unit)), a |-> a, b |-> b]
  ELSE IF ~b.unit.some
    THEN [result |-> RErr(MissingUnit("Left", a.unit)), a |-> a, b |-> b]
  ELSE
    LET au == unit_or_parse(a.unit)
        bu == unit_or_parse(b.unit)
        a2 == [a EXCEPT !.unit = au]
        b2 == [b EXCEPT !.unit = bu]
    IN
    IF au.info.t = "Known" /\ bu.info.t = "Known"
      THEN IF au.info.unit.physical_quantity # bu.info.unit.physical_quantity
             THEN [result |-> RErr(DifferentPhysicalQuantities(
                                     au.info.unit.physical_quantity,
                                     bu.info.unit.physical_quantity)),
                   a |-> a2, b |-> b2]
             ELSE [result |-> ROk(Some(au.info.unit)), a |-> a2, b |-> b2]
      ELSE IF au.text # bu.text
             THEN [result |-> RErr(UnknownDifferentUnits(au.text, bu.text)),
                   a |-> a2, b |-> b2]
             ELSE [result |-> ROk(None), a |-> a2, b |-> b2]

\* try_add that adds rhs as it is, without converting it
Quantity_try_add_NoConvert(a, b, strict) ==
  LET c == is_compatible(a, b) IN
  IF ~c.result.ok
    THEN [result |-> c.result, a |-> c.a, b |-> c.b, common |-> None, rhs |-> c.b]
  ELSE
    LET value == QuantityValue_try_add(c.a.value, c.b.value) IN
    [result |-> IF ~value.ok THEN value
                ELSE ROk([value |-> value.value, unit |-> c.a.unit]),
     a |-> c.a, b |-> c.b, common |-> c.result.value, rhs |-> c.b]

\* Quantity::try_add(self = a, rhs = b): its result, a and b afterwards, the
\* common unit of step 1 and the right-hand quantity of step 2
Quantity_try_add(a, b, strict) ==
  LET c == is_compatible(a, b) IN
  IF ~c.result.ok
    THEN [result |-> c.result, a |-> c.a, b |-> c.b, common |-> None, rhs |-> c.b]
  ELSE
    LET convert_to == c.result.value
        conv == IF convert_to.some
                  THEN Convert(c.b, c.b.unit.info.unit, convert_to.unit, strict)
                  ELSE ROk(c.b)
    IN
    IF ~conv.ok
      THEN [result |-> conv, a |-> c.a, b |-> c.b, common |-> convert_to,
            rhs |-> c.b]
    ELSE
      LET value == QuantityValue_try_add(c.a.value, conv.value.value) IN
      [result |-> IF ~value.ok THEN value
                  ELSE ROk([value |-> value.value, unit |-> c.a.unit]),
       a |-> c.a, b |-> c.b, common |-> convert_to, rhs |-> conv.value]

\* the quantities a run starts from
QtyValues ==
  { Fixed(Number(1000)), Fixed(Number(2000)), Fixed(Range(1000, 2000)),
    Fixed(Text("some")), Scalable(Linear(Number(1000))) }

UnitTexts == {"g", "kg", "ml", "cup", "pinch"}

\* Quantity::unitless, Quantity::new (empty cell), Quantity::new_and_parse
\* (cell filled from the converter) and Quantity::with_known_unit(.., None)
UnitChoices ==
  {NoUnit}
    \cup { SomeUnit(x, Unset) : x \in UnitTexts }
    \cup { SomeUnit(x, UnitInfo_new(x)) : x \in UnitTexts }
    \cup { SomeUnit(x, Unknown) : x \in UnitTexts }

Quantities == { [value |-> v, unit |-> u] : v \in QtyValues, u \in UnitChoices }

\* qa.is_compatible(&qb, converter)
IsCompatible ==
  LET o == is_compatible(qa, qb) IN
  /\ qa' = o.a
  /\ qb' = o.b
  /\ qout' = [op |-> "is_compatible", a0 |-> qa, b0 |-> qb, result |-> o.result]
  /\ UNCHANGED <<fsvars, valvars, unitvars, chkvars, imgvars, listing>>

\* qa.try_add(&qb, converter)
TryAdd ==
  \E strict \in BOOLEAN :
    LET o == Quantity_try_add(qa, qb, strict) IN
    /\ qa' = o.a
    /\ qb' = o.b
    /\ qout' = [op |-> "try_add", a0 |-> qa, b0 |-> qb, result |-> o.result,
                common |-> o.common, rhs |-> o.rhs]
    /\ UNCHANGED <<fsvars, valvars, unitvars, chkvars, imgvars, listing>>

\* unit_info that resolves the unit when it is not resolved yet
unit_info_Resolving(q) ==
  IF q.unit.some
    THEN [some |-> TRUE, info |-> unit_or_parse(q.unit).info]
    ELSE [some |-> FALSE]

\* Quantity::unit_info: what the unit cell holds, None when there is no
\* unit or the cell is still empty
unit_info(q) ==
  IF q.unit.some /\ q.unit.info.t # "Unset"
    THEN [some |-> TRUE, info |-> q.unit.info]
    ELSE [some |-> FALSE]

\* ConvertTo::SameSystem: the units the converter may pick for a quantity
\* in unit `from`, those of the same physical quantity
SameSystemUnits(from) ==
  { ConverterUnits[x] : x \in { y \in DOMAIN ConverterUnits :
      ConverterUnits[y].physical_quantity = from.physical_quantity } }

\* the targets of the conversion fit asks for: none is used unless the
\* unit is resolved as Known
FitTargets(q) ==
  IF unit_info(q).some /\ unit_info(q).info.t = "Known"
    THEN SameSystemUnits(unit_info(q).info.unit)
    ELSE { ConverterUnits["g"] }

\* Quantity::fit(self = q): q afterwards, the convert calls made and
\* whether `expect` panicked
Quantity_fit(q, to, strict) ==
  LET info == unit_info(q) IN
  IF info.some /\ info.info.t = "Known"
    THEN LET r == Convert(q, info.info.unit, to, strict) IN
         IF r.ok
           THEN [q |-> r.value, converts |-> 1, panic |-> FALSE]
           ELSE [q |-> q, converts |-> 1, panic |-> TRUE]
    ELSE [q |-> q, converts |-> 0, panic |-> FALSE]

\* qa.fit(converter)
Fit ==
  \E strict \in BOOLEAN : \E to \in FitTargets(qa) :
    LET o == Quantity_fit(qa, to, strict) IN
    /\ qa' = o.q
    /\ qout' = [op |-> "fit", a0 |-> qa, to |-> to, strict |-> strict,
                converts |-> o.converts, panic |-> o.panic]
    /\ UNCHANGED qb
    /\ UNCHANGED <<fsvars, valvars, unitvars, chkvars, imgvars, listing>>

InitQty ==
  /\ IdleFs /\ IdleVal /\ IdleUnit
  /\ IdleChk /\ IdleImg /\ IdleList
  /\ qa \in Quantities
  /\ qb \in Quantities
  /\ qout = [op |-> "none"]

NextQty == IsCompatible \/ TryAdd \/ Fit

SpecQty == InitQty /\ [][NextQty]_vars

---------------------------------------------------------------------------
\* Properties of Quantity (checked under SpecQty)

\* C6: is_compatible(a, b) as a function of the two units: both absent ->
\* Ok(None); one absent -> MissingUnit with the present unit, Left for a
\* and Right for b; both Known -> DifferentPhysicalQuantities when the
\* physical quantities differ, else Ok(a's unit); otherwise Ok(None) when
\* the texts are equal, else UnknownDifferentUnits.
C6_IsCompatibleTable ==
  qout.op = "is_compatible" =>
    LET a == qout.a0.unit
        b == qout.b0.unit
        r == qout.result
    IN
    /\ (~a.some /\ ~b.some) => r = ROk(None)
    /\ (~a.some /\ b.some) => r = RErr(MissingUnit("Right", b))
    /\ (a.some /\ ~b.some) => r = RErr(MissingUnit("Left", a))
    /\ (a.some /\ b.some) =>
         LET ia == qa.unit.info
             ib == qb.unit.info
         IN
         /\ ia.t \in {"Known", "Unknown"} /\ ib.t \in {"Known", "Unknown"}
         /\ (ia.t = "Known" /\ ib.t = "Known"
               /\ ia.unit.physical_quantity # ib.unit.physical_quantity)
            => r = RErr(DifferentPhysicalQuantities(ia.unit.physical_quantity,
                                                    ib.unit.physical_quantity))
         /\ (ia.t = "Known" /\ ib.t = "Known"
               /\ ia.unit.physical_quantity = ib.unit.physical_quantity)
            => r = ROk(Some(ia.unit))
         /\ ((ia.t = "Unknown" \/ ib.t = "Unknown") /\ a.text = b.text)
            => r = ROk(None)
         /\ ((ia.t = "Unknown" \/ ib.t = "Unknown") /\ a.text # b.text)
            => r = RErr(UnknownDifferentUnits(a.text, b.text))

\* two different units of the same physical quantity, resolved by the call
C6_Witness ==
  /\ qout.op = "is_compatible"
  /\ qout.a0.unit.some /\ qout.b0.unit.some
  /\ qout.a0.unit.info.t = "Unset" /\ qout.b0.unit.info.t = "Unset"
  /\ qout.a0.unit.text # qout.b0.unit.text
  /\ qout.result.ok /\ qout.result.value.some
  /\ qout.result.value.unit.symbol = qout.a0.unit.text

\* C7: when Quantity::try_add(a, b) succeeds the result carries a's unit
\* (same text, or none) and never b's, its value is the Fixed sum of a's
\* value and b's value, b's being converted into a's unit exactly when
\* is_compatible returned a common unit; a and b keep value and unit text.
C7_TryAddKeepsLeftUnit ==
  (qout.op = "try_add" /\ qout.result.ok) =>
    LET a == qout.a0
        b == qout.b0
        q == qout.result.value
        common == is_compatible(a, b).result.value
        bv == IF common.some
                THEN ConvertValue(b.value.v, qb.unit.info.unit, qa.unit.info.unit)
                ELSE b.value.v
    IN
    /\ q.unit.some = a.unit.some
    /\ a.unit.some => q.unit.text = a.unit.text
    /\ (b.unit.some /\ a.unit.some /\ b.unit.text # a.unit.text)
         => q.unit.text # b.unit.text
    /\ a.value.t = "Fixed" /\ b.value.t = "Fixed"
    /\ q.value = Fixed(NumericSum(a.value.v, bv))
    /\ qout.common = common
    /\ qa.value = a.value /\ qb.value = b.value
    /\ qa.unit.some = a.unit.some /\ qb.unit.some = b.unit.some
    /\ a.unit.some => qa.unit.text = a.unit.text
    /\ b.unit.some => qb.unit.text = b.unit.text

\* grams plus kilograms: the kilograms are converted, the sum is in grams
C7_Witness ==
  /\ qout.op = "try_add" /\ qout.result.ok
  /\ qout.a0.unit.some /\ qout.b0.unit.some
  /\ qout.a0.unit.text = "g" /\ qout.b0.unit.text = "kg"
  /\ qout.common.some
  /\ qout.rhs.value # qout.b0.value
  /\ qout.result.value.unit.text = "g"

---------------------------------------------------------------------------
\* QuantityUnit::unit_or_parse called by several threads on one unit:
\* self.info.get_or_init(|| UnitInfo::new(&self.text, converter))
\*
\* once_cell::sync::OnceCell: get() is the lock-free fast path; initialize
\* moves the cell INCOMPLETE -> RUNNING for one caller, which runs the
\* closure and stores its value (COMPLETE); callers that find it RUNNING
\* wait until it is COMPLETE.

Threads == 1..NThreads

\* what a converter can answer for the unit's text: each caller passes its
\* own &Converter, which knows the text or does not
LookupResults == { Known(Unit("g", "mass", 1)), Unknown }

\* an initialisation that starts whenever the cell is not yet complete
CanStartInit_NoLock(c) == c.state # "complete"

\* the compare-and-swap INCOMPLETE -> RUNNING of get_or_init
CanStartInit(c) == c.state = "incomplete"

ThreadIdle == [pc |-> "idle", tmp |-> Unset, obs |-> Unset, calls |-> 0]

\* thread t calls unit_or_parse
UnitOrParse(t) ==
  /\ uthreads[t].pc = "idle"
  /\ uthreads[t].calls < MaxUnitCalls
  /\ uthreads' = [uthreads EXCEPT ![t].pc = "get"]
  /\ UNCHANGED <<ucell, ulog, fsvars, valvars, qtyvars, chkvars, imgvars, listing>>

\* get_or_init, fast path: the cell is complete, return its value
FastPath(t) ==
  /\ uthreads[t].pc = "get"
  /\ IF ucell.state = "complete"
       THEN uthreads' = [uthreads EXCEPT ![t].pc = "idle",
                                         ![t].obs = ucell.value,
                                         ![t].calls = @ + 1]
       ELSE uthreads' = [uthreads EXCEPT ![t].pc = "initialize"]
  /\ UNCHANGED <<ucell, ulog, fsvars, valvars, qtyvars, chkvars, imgvars, listing>>

\* get_or_init, slow path: become the initialiser, or find the cell complete
\* (a thread that finds it running waits)
Initialize(t) ==
  /\ uthreads[t].pc = "initialize"
  /\ \/ /\ CanStartInit(ucell)
        /\ ucell' = [ucell EXCEPT !.state = "running"]
        /\ uthreads' = [uthreads EXCEPT ![t].pc = "closure"]
     \/ /\ ucell.state = "complete"
        /\ uthreads' = [uthreads EXCEPT ![t].pc = "read"]
        /\ UNCHANGED ucell
  /\ UNCHANGED <<ulog, fsvars, valvars, qtyvars, chkvars, imgvars, listing>>

\* the closure: UnitInfo::new(&self.text, converter), one Converter lookup
Closure(t) ==
  /\ uthreads[t].pc = "closure"
  /\ \E r \in LookupResults :
       uthreads' = [uthreads EXCEPT ![t].pc = "store", ![t].tmp = r]
  /\ ulog' = [ulog EXCEPT !.lookups = @ + 1]
  /\ UNCHANGED <<ucell, fsvars, valvars, qtyvars, chkvars, imgvars, listing>>

\* the initialiser stores the closure's value and completes the cell
Store(t) ==
  /\ uthreads[t].pc = "store"
  /\ ucell' = [state |-> "complete", value |-> uthreads[t].tmp]
  /\ ulog' = [ulog EXCEPT !.writes = Append(@, uthreads[t].tmp)]
  /\ uthreads' = [uthreads EXCEPT ![t].pc = "read"]
  /\ UNCHANGED <<fsvars, valvars, qtyvars, chkvars, imgvars, listing>>

\* get_or_init returns a reference to the stored value
Read(t) ==
  /\ uthreads[t].pc = "read"
  /\ ucell.state = "complete"
  /\ uthreads' = [uthreads EXCEPT ![t].pc = "idle",
                                  ![t].obs = ucell.value,
                                  ![t].calls = @ + 1]
  /\ UNCHANGED <<ucell, ulog, fsvars, valvars, qtyvars, chkvars, imgvars, listing>>

\* the unit is built by Quantity::new (empty cell), Quantity::new_and_parse
\* (one lookup, cell filled) or Quantity::with_known_unit (cell filled
\* with what the caller gives, no lookup)
InitUnit ==
  /\ IdleFs /\ IdleVal /\ IdleQty
  /\ IdleChk /\ IdleImg /\ IdleList
  /\ uthreads = [t \in Threads |-> ThreadIdle]
  /\ \/ /\ ucell = [state |-> "incomplete", value |-> Unset]
        /\ ulog = [ctor |-> "new", lookups |-> 0, writes |-> <<>>]
     \/ \E r \in LookupResults :
          /\ ucell = [state |-> "complete", value |-> r]
          /\ ulog = [ctor |-> "new_and_parse", lookups |-> 1, writes |-> <<r>>]
     \/ \E r \in LookupResults :
          /\ ucell = [state |-> "complete", value |-> r]
          /\ ulog = [ctor |-> "with_known_unit", lookups |-> 0, writes |-> <<r>>]

NextUnit ==
  \E t \in Threads :
    \/ UnitOrParse(t)
    \/ FastPath(t)
    \/ Initialize(t)
    \/ Closure(t)
    \/ Store(t)
    \/ Read(t)

SpecUnit == InitUnit /\ [][NextUnit]_vars

---------------------------------------------------------------------------
\* Properties of the unit cell (checked under SpecUnit)

Returned(t) == uthreads[t].calls > 0

\* the stored result never changes, and every caller observes it
OneStoredResult ==
  /\ Len(ulog.writes) <= 1
  /\ ucell.state = "complete" => ulog.writes = <<ucell.value>>
  /\ \A t \in Threads : Returned(t) => ulog.writes = <<uthreads[t].obs>>

\* C5 as claimed: under any interleaving of the callers of unit_or_parse the
\* Converter lookup for the unit is performed exactly once over the unit's
\* lifetime, the stored result never changes and every caller observes it.
C5_LookupExactlyOnce ==
  /\ ulog.lookups <= 1
  /\ (\E t \in Threads : Returned(t)) => ulog.lookups = 1
  /\ OneStoredResult

\* C5 as amended: the lookup is performed at most once: exactly once for a
\* unit built by Quantity::new (by the first unit_or_parse) or by
\* new_and_parse (when it is built), never for one built by
\* with_known_unit; the stored result never changes and every caller
\* observes it.
C5_LookupAtMostOnce ==
  /\ ulog.lookups <= 1
  /\ ( ulog.ctor \in {"new", "new_and_parse"} /\ \E t \in Threads : Returned(t) )
       => ulog.lookups = 1
  /\ ulog.ctor = "with_known_unit" => ulog.lookups = 0
  /\ OneStoredResult

\* two threads raced for the first resolution of a unit built by
\* Quantity::new: one ran the lookup, the other waited, both returned
C5_Witness ==
  /\ ulog.ctor = "new"
  /\ ulog.lookups = 1
  /\ \E t \in Threads : \E u \in Threads :
       /\ t # u
       /\ Returned(t) /\ Returned(u)
       /\ uthreads[t].tmp # Unset /\ uthreads[u].tmp = Unset
       /\ uthreads[t].obs = uthreads[u].obs

---------------------------------------------------------------------------
\* Image, RecipeImageError, check_recipe_images (cooklang-fs/src/lib.rs)

\* Image.indexes: None, or Some((section, step))
NoIndexes == [some |-> FALSE]
Indexes(section, step) == [some |-> TRUE, section |-> section, step |-> step]

\* struct Image
Image(indexes, path) == [indexes |-> indexes, path |-> path]

\* enum RecipeImageError
MissingSection(section, image) ==
  [e |-> "MissingSection", section |-> section, image |-> image]
MissingStep(section, step, image) ==
  [e |-> "MissingStep", section |-> section, step |-> step, image |-> image]

\* a section of the parsed recipe with n steps
Section(n) == [steps |-> [k \in 1..n |-> "step"]]

RECURSIVE CheckLoop(_, _, _)
\* the `for image in images` loop, with the errors pushed so far
CheckLoop(images, recipe, errors) ==
  IF images = <<>> THEN errors
  ELSE LET image == Head(images) IN
    IF ~image.indexes.some THEN CheckLoop(Tail(images), recipe, errors)
    ELSE LET section_index == image.indexes.section
             step_index == image.indexes.step
         IN
      IF section_index >= Len(recipe.sections)
        THEN CheckLoop(Tail(images), recipe,
                       Append(errors, MissingSection(section_index, image.path)))
      ELSE IF step_index >= Len(recipe.sections[section_index + 1].steps)
        THEN CheckLoop(Tail(images), recipe,
                       Append(errors,
                              MissingStep(section_index, step_index, image.path)))
      ELSE CheckLoop(Tail(images), recipe, errors)

\* check_recipe_images that returns at the first error it finds
check_recipe_images_FirstOnly(images, recipe) ==
  LET errors == CheckLoop(images, recipe, <<>>) IN
  IF errors = <<>> THEN ROk(<<>>) ELSE RErr(<<errors[1]>>)

\* check_recipe_images: Ok(()) or Err(errors)
check_recipe_images(images, recipe) ==
  LET errors == CheckLoop(images, recipe, <<>>) IN
  IF errors = <<>> THEN ROk(<<>>) ELSE RErr(errors)

\* the longest list of images given to check_recipe_images
MaxImages == 2

\* the decimal text of a small usize
UsizeText(n) == <<"0", "1", "2", "3">>[n + 1]

ImagePath(name) == << <<"r">>, name >>

\* the images: every (section, step) up to 2, the whole-recipe image, and
\* second files for None and for (0, 1)
CheckImages ==
  { Image(Indexes(s, t),
          ImagePath(<<"Soup", UsizeText(s), UsizeText(t), "jpg">>)) :
      s \in 0..2, t \in 0..2 }
    \cup { Image(NoIndexes, ImagePath(<<"Soup", "jpg">>)),
           Image(NoIndexes, ImagePath(<<"Soup", "png">>)),
           Image(Indexes(0, 1), ImagePath(<<"Soup", "1", "png">>)) }

ImageLists == UNION { [1..n -> CheckImages] : n \in 0..MaxImages }

\* recipes of up to two sections with 0, 1 or 3 steps each
Recipes ==
  { [sections |-> ss] :
      ss \in UNION { [1..n -> {Section(0), Section(1), Section(3)}] : n \in 0..2 } }

\* check_recipe_images(&cimages, &crecipe)
CheckRecipeImages ==
  /\ cout' = [op |-> "check_recipe_images",
              result |-> check_recipe_images(cimages, crecipe)]
  /\ UNCHANGED <<cimages, crecipe>>
  /\ UNCHANGED <<fsvars, valvars, qtyvars, unitvars, imgvars, listing>>

InitChk ==
  /\ IdleFs /\ IdleVal /\ IdleQty /\ IdleUnit /\ IdleImg /\ IdleList
  /\ cimages \in ImageLists
  /\ crecipe \in Recipes
  /\ cout = [op |-> "none"]

NextChk == CheckRecipeImages

SpecChk == InitChk /\ [][NextChk]_vars

---------------------------------------------------------------------------
\* Properties of check_recipe_images (checked under SpecChk)

HasSection(recipe, s) == s < Len(recipe.sections)

\* an image whose indexes point outside the recipe
OutOfBounds(image, recipe) ==
  /\ image.indexes.some
  /\ \/ ~HasSection(recipe, image.indexes.section)
     \/ Len(recipe.sections[image.indexes.section + 1].steps) <= image.indexes.step

\* the positions of the out of bounds images in the input
Violations == { i \in 1..Len(cimages) : OutOfBounds(cimages[i], crecipe) }

\* the position of the k-th out of bounds image
KthViolation(k) ==
  CHOOSE i \in Violations : Cardinality({ j \in Violations : j <= i }) = k

\* the one error an out of bounds image is reported with
ErrorFor(image, recipe) ==
  IF ~HasSection(recipe, image.indexes.section)
    THEN MissingSection(image.indexes.section, image.path)
    ELSE MissingStep(image.indexes.section, image.indexes.step, image.path)

\* C11: check_recipe_images returns Ok exactly when no image with indexes is
\* out of bounds; otherwise its error list holds, in input order, exactly
\* one error per out of bounds image: MissingSection when the section does
\* not exist, MissingStep when it exists but has at most `step` steps.
C11_EveryViolationOnceInOrder ==
  cout.op = "check_recipe_images" =>
    /\ cout.result.ok <=> Violations = {}
    /\ ~cout.result.ok =>
         /\ Len(cout.result.err) = Cardinality(Violations)
         /\ \A k \in 1..Len(cout.result.err) :
              cout.result.err[k] = ErrorFor(cimages[KthViolation(k)], crecipe)

\* two violations reported in input order, which is not the sorted order:
\* a missing step of section 1 before a missing section
C11_Witness ==
  /\ cout.op = "check_recipe_images"
  /\ Len(cimages) = 2
  /\ ~cout.result.ok
  /\ Len(cout.result.err) = 2
  /\ cout.result.err[1].e = "MissingStep" /\ cout.result.err[1].section = 1
  /\ cout.result.err[2].e = "MissingSection"
  /\ cout.result.err[2].section > cout.result.err[1].section
  /\ cout.result.err[2].image # cout.result.err[1].image

---------------------------------------------------------------------------
\* recipe_images (cooklang-fs/src/lib.rs)

\* IMAGE_EXTENSIONS
IMAGE_EXTENSIONS == {"jpeg", "jpg", "png", "heic", "gif", "webp"}

\* str::parse::<usize> on the texts that occur between the dots: decimal
\* digits with an optional leading "+"
ParseUsize(text) ==
  IF text \in {"0"} THEN ROk(0)
  ELSE IF text \in {"1", "+1", "01"} THEN ROk(1)
  ELSE IF text \in {"2"} THEN ROk(2)
  ELSE IF text \in {"3"} THEN ROk(3)
  ELSE RErr([e |-> "ParseIntError"])

\* file_name.rsplitn(4, '.'): the parts from the right, the fourth being
\* all that is left of the name (it keeps its dots)
RSplitN4(n) ==
  IF Len(n) <= 4
    THEN [i \in 1..Len(n) |-> <<n[Len(n) + 1 - i]>>]
    ELSE << <<n[Len(n)]>>, <<n[Len(n) - 1]>>, <<n[Len(n) - 2]>>,
            SubSeq(n, 1, Len(n) - 3) >>

\* file_name.split_once('.').map(|s| s.0).unwrap_or_default(): the text
\* before the first dot, "" when the name has no dot
RecipeName(path) ==
  IF HasFileName(path) /\ Len(FileName(path)) > 1
    THEN <<FileName(path)[1]>>
    ELSE <<"">>

\* the closure of the last filter_map: the image a sibling file stands for
DecodeImage(image_path, path) ==
  LET parts == RSplitN4(FileName(image_path))
      recipe_name == RecipeName(path)
      ext == parts[1][1]
  IN
  IF Len(parts) = 4
    THEN LET step_index == ParseUsize(parts[2][1])
             section_index == ParseUsize(parts[3][1])
         IN IF /\ ext \in IMAGE_EXTENSIONS
               /\ parts[4] = recipe_name
               /\ step_index.ok
               /\ section_index.ok
              THEN [some |-> TRUE,
                    image |-> Image(Indexes(section_index.value, step_index.value),
                                    image_path)]
              ELSE [some |-> FALSE]
  ELSE IF Len(parts) = 3
    THEN LET step_index == ParseUsize(parts[2][1])
         IN IF ext \in IMAGE_EXTENSIONS /\ parts[3] = recipe_name /\ step_index.ok
              THEN [some |-> TRUE,
                    image |-> Image(Indexes(0, step_index.value), image_path)]
              ELSE [some |-> FALSE]
  ELSE IF Len(parts) = 2
    THEN IF ext \in IMAGE_EXTENSIONS /\ parts[2] = recipe_name
           THEN [some |-> TRUE, image |-> Image(NoIndexes, image_path)]
           ELSE [some |-> FALSE]
  ELSE [some |-> FALSE]

\* the names that occur in an image directory, in byte order (str::cmp)
ImageNameOrder ==
  << <<"Other", "jpg">>,
     <<"Soup">>,
     <<"Soup", "+1", "jpg">>,
     <<"Soup", "0", "1", "2", "jpg">>,
     <<"Soup", "1", "3", "gif">>,
     <<"Soup", "1", "jpg">>,
     <<"Soup", "2", "png">>,
     <<"Soup", "2", "txt">>,
     <<"Soup", "3", "jpg">>,
     <<"Soup", "cook">>,
     <<"Soup", "jpg">>,
     <<"Soup", "v2", "cook">>,
     <<"Soup", "v2", "jpg">> >>

ImageNameRank(n) == CHOOSE i \in 1..Len(ImageNameOrder) : ImageNameOrder[i] = n

\* the derived Ord of Image: indexes (None first, then section, then step),
\* then path
ImageLess(a, b) ==
  IF a.indexes # b.indexes
    THEN IF ~a.indexes.some THEN TRUE
         ELSE IF ~b.indexes.some THEN FALSE
         ELSE IF a.indexes.section # b.indexes.section
           THEN a.indexes.section < b.indexes.section
         ELSE a.indexes.step < b.indexes.step
    ELSE ImageNameRank(FileName(a.path)) < ImageNameRank(FileName(b.path))

RECURSIVE SortImages(_)
\* images.sort_unstable()
SortImages(S) ==
  IF S = {} THEN <<>>
  ELSE LET least == CHOOSE x \in S : \A y \in S \ {x} : ImageLess(x, y)
       IN  <<least>> \o SortImages(S \ {least})

\* recipe_images(path) in a directory tree: the walk of the parent directory
\* to depth 1, without the directories, decoded and sorted
recipe_images(tree, path) ==
  IF Len(path) = 0 THEN <<>>
  ELSE
    LET dir == SubSeq(path, 1, Len(path) - 1)
        files == { e \in Children(tree, D(dir)) : e.kind = "file" }
        found == { e \in files : DecodeImage(e.path, path).some }
    IN  SortImages({ DecodeImage(e.path, path).image : e \in found })

\* the directory r: every entry is a file, but Soup.3.jpg is a directory
ImageDirEntries ==
  { IF n = <<"Soup", "3", "jpg">> THEN D(ImagePath(n)) ELSE F(ImagePath(n)) :
      n \in { ImageNameOrder[i] : i \in 1..Len(ImageNameOrder) } }

\* the recipes whose images are asked for: r/Soup.cook, r/Soup.v2.cook,
\* r/Other.cook
RecipePaths ==
  { ImagePath(<<"Soup", "cook">>), ImagePath(<<"Soup", "v2", "cook">>),
    ImagePath(<<"Other", "cook">>) }

\* recipe_images(&ipath)
RecipeImages ==
  /\ iout' = [op |-> "recipe_images", result |-> recipe_images(idir, ipath)]
  /\ UNCHANGED <<idir, ipath>>
  /\ UNCHANGED <<fsvars, valvars, qtyvars, unitvars, chkvars, listing>>

InitImg ==
  /\ IdleFs /\ IdleVal /\ IdleQty /\ IdleUnit /\ IdleChk /\ IdleList
  /\ idir \in SUBSET ImageDirEntries
  /\ ipath \in RecipePaths
  /\ iout = [op |-> "none"]

NextImg == RecipeImages

SpecImg == InitImg /\ [][NextImg]_vars

---------------------------------------------------------------------------
\* Properties of recipe_images (checked under SpecImg)

IsIndexText(text) == ParseUsize(text).ok

\* the image the file name n stands for when decoded against the stem N:
\* N.ext, N.step.ext or N.section.step.ext
DecodesAgainst(n, N) ==
  /\ Len(n) > Len(N)
  /\ SubSeq(n, 1, Len(N)) = N
  /\ n[Len(n)] \in IMAGE_EXTENSIONS
  /\ Len(n) - Len(N) \in 1..3
  /\ \A i \in (Len(N) + 1)..(Len(n) - 1) : IsIndexText(n[i])

IndexesAgainst(n, N) ==
  IF Len(n) = Len(N) + 1 THEN NoIndexes
  ELSE IF Len(n) = Len(N) + 2 THEN Indexes(0, ParseUsize(n[Len(N) + 1]).value)
  ELSE Indexes(ParseUsize(n[Len(N) + 1]).value, ParseUsize(n[Len(N) + 2]).value)

\* the images of the directory for the stem N
ImagesFor(N) ==
  { Image(IndexesAgainst(FileName(e.path), N), e.path) :
      e \in { f \in idir : f.kind = "file" /\ DecodesAgainst(FileName(f.path), N) } }

IsSortedImages(s) ==
  \A i \in 1..Len(s) : \A j \in 1..Len(s) : i < j => ImageLess(s[i], s[j])

\* C12: recipe_images for a recipe with stem N returns exactly the files of
\* the recipe's directory whose name decodes against N (N.ext -> None,
\* N.step.ext -> (0, step), N.section.step.ext -> (section, step)), sorted
\* by (indexes, path) with None first.
C12_DecodesAgainstStem ==
  iout.op = "recipe_images" =>
    /\ { iout.result[i] : i \in 1..Len(iout.result) } = ImagesFor(FileStem(ipath))
    /\ Len(iout.result) = Cardinality(ImagesFor(FileStem(ipath)))
    /\ IsSortedImages(iout.result)

---------------------------------------------------------------------------
\* Further properties of FsIndex (checked under SpecFs)

\* the positions of the walker items call i pulled
Yielded(i) == (hist[i].pos0 + 1)..hist[i].pos1

\* call i returned before the walk loop: InvalidName, a cache hit, a
\* negative cache hit, or the direct-file probe
ReturnedBeforeWalk(i) ==
  \/ hist[i].result.tag = "InvalidName"
  \/ hist[i].hit
  \/ hist[i].neg
  \/ hist[i].probed /\ hist[i].result = Ok(PossiblePath(hist[i].input))

\* C13: the walk cursor never decreases and is never reset: every call
\* starts where the call before it stopped, no walker item is pulled by two
\* calls, and a call that returns from the cache, from the negative cache,
\* from the direct-file probe or with InvalidName leaves the cursor alone.
C13_CursorOnlyAdvances ==
  /\ walker.pos \in 0..Len(walker.items)
  /\ walker.pos = IF hist = <<>> THEN 0 ELSE hist[Len(hist)].pos1
  /\ \A i \in Calls :
       /\ hist[i].pos0 <= hist[i].pos1
       /\ hist[i].pos0 = IF i = 1 THEN 0 ELSE hist[i - 1].pos1
       /\ ReturnedBeforeWalk(i) => hist[i].pos1 = hist[i].pos0
  /\ \A i \in Calls : \A j \in Calls :
       i # j => Yielded(i) \cap Yielded(j) = {}
  /\ \A k \in 1..walker.pos : \A l \in 1..walker.pos :
       k # l => walker.items[k] # walker.items[l]

\* a walk in two stages around a call answered by the probe: the first call
\* advanced the cursor, the second left it alone, the third resumed from
\* where the first stopped
C13_Witness ==
  /\ Len(hist) = 3
  /\ hist[1].pos1 > hist[1].pos0
  /\ ReturnedBeforeWalk(2) /\ hist[2].probed /\ hist[2].pos1 = hist[1].pos1
  /\ hist[3].pos0 = hist[1].pos1 /\ hist[3].pos1 > hist[3].pos0
  /\ hist[3].result.tag = "Ok"

\* the absent set call i left behind
NonExistentAfter(i) ==
  IF i = Len(hist) THEN non_existent ELSE hist[i + 1].non_existent0

\* call i exhausted the walk without a match
ExhaustedAndFailed(i) == hist[i].result.tag = "NotFound" /\ ~hist[i].neg

\* call j asks for a name that is not absent itself, while another spelling
\* with the same stem is
AliasOfAbsent(j) ==
  /\ HasFileName(hist[j].input)
  /\ hist[j].input \notin hist[j].non_existent0
  /\ \E s \in hist[j].non_existent0 :
       s # hist[j].input /\ FileStem(s) = FileStem(hist[j].input)

\* a call adds its input, and nothing else, to the absent set exactly when
\* it exhausts the walk and fails
OnlyFailedInputMarked ==
  \A i \in Calls :
    /\ ExhaustedAndFailed(i) => hist[i].pos1 = Len(walker.items)
    /\ NonExistentAfter(i) =
         IF ExhaustedAndFailed(i)
           THEN hist[i].non_existent0 \cup {hist[i].input}
           ELSE hist[i].non_existent0

\* C14 as claimed: when get(s) exhausts the walk and fails, s and only s is
\* added to the absent set; a later get(t), t # s with the same stem, is not
\* answered from the negative cache: it runs the direct-file probe and
\* succeeds when base_path/t with the recipe extension is a file.
C14_AliasAlwaysProbes ==
  /\ OnlyFailedInputMarked
  /\ \A j \in Calls :
       AliasOfAbsent(j) =>
         /\ ~hist[j].neg
         /\ hist[j].probed
         /\ PathIsFile(fs, PossiblePath(hist[j].input))
              => hist[j].result = Ok(PossiblePath(hist[j].input))

\* C14 as amended: such a get(t) is not answered from the negative cache:
\* either the cache answers it (t is a cached path), or it runs the
\* direct-file probe and succeeds when base_path/t with the recipe
\* extension is a file.
C14_AliasNotPreempted ==
  /\ OnlyFailedInputMarked
  /\ \A j \in Calls :
       AliasOfAbsent(j) =>
         /\ ~hist[j].neg
         /\ \/ /\ hist[j].hit
               /\ ~hist[j].probed
               /\ hist[j].result = Ok(hist[j].input)
            \/ /\ ~hist[j].hit
               /\ hist[j].probed
               /\ PathIsFile(fs, PossiblePath(hist[j].input))
                    => hist[j].result = Ok(PossiblePath(hist[j].input))

\* get(s) exhausted the walk and failed, and a later get(t) of a sub-path
\* spelling with the same stem was answered by the probe
C14_Witness ==
  \E i \in Calls : \E j \in Calls :
    /\ i < j
    /\ ExhaustedAndFailed(i)
    /\ NonExistentAfter(i) = {hist[i].input}
    /\ hist[j].input # hist[i].input
    /\ AliasOfAbsent(j)
    /\ hist[i].input \in hist[j].non_existent0
    /\ hist[j].probed
    /\ hist[j].result = Ok(PossiblePath(hist[j].input))
    /\ hist[j].pos1 = hist[j].pos0

\* the cache call i left behind
RecipesAfter(i) == IF i = Len(hist) THEN recipes ELSE hist[i + 1].recipes0

\* every path of cache `old` is still in cache `new`, under the same name
\* and in the same order
CacheKept(old, new) ==
  \A name \in DOMAIN old :
    /\ name \in DOMAIN new
    /\ Len(old[name]) <= Len(new[name])
    /\ SubSeq(new[name], 1, Len(old[name])) = old[name]

\* the walker items of call i that failed: an IO error or a non-UTF8 path
FailingItems(i) ==
  { k \in Yielded(i) : walker.items[k].kind \in {"ioerr", "nonutf8"} }

\* C15: when the walker yields an IO error or a non-UTF8 path during a
\* call, the call stops there and returns that error (Walk or NonUtf8), its
\* input is not added to the absent set, and the cache and the absent set
\* keep what they held, the recipe files pulled before the failing entry
\* included; the next call with the same input is not answered from the
\* negative cache but resumes the walk behind the failing entry.
C15_WalkErrorKeepsState ==
  \A i \in Calls :
    FailingItems(i) # {} =>
      /\ FailingItems(i) = {hist[i].pos1}
      /\ hist[i].result =
           IF walker.items[hist[i].pos1].kind = "ioerr" THEN ErrWalk ELSE ErrNonUtf8
      /\ NonExistentAfter(i) = hist[i].non_existent0
      /\ CacheKept(hist[i].recipes0, RecipesAfter(i))
      /\ \A k \in Yielded(i) :
           is_cooklang_file(walker.items[k]) =>
             /\ FileStem(walker.items[k].path) \in DOMAIN RecipesAfter(i)
             /\ \E n \in 1..Len(RecipesAfter(i)[FileStem(walker.items[k].path)]) :
                  RecipesAfter(i)[FileStem(walker.items[k].path)][n]
                    = walker.items[k].path
      /\ ( i + 1 \in Calls /\ hist[i + 1].input = hist[i].input ) =>
           /\ ~hist[i + 1].neg
           /\ hist[i + 1].pos0 = hist[i].pos1
           /\ hist[i + 1].pos1 > hist[i + 1].pos0
                \/ hist[i + 1].pos0 = Len(walker.items)

\* get(s) failed on a non-UTF8 name, the next get(s) resumed, cached the
\* recipe files it passed and failed on an unreadable directory, and the
\* third get(s) resumed again and ended the walk
C15_Witness ==
  /\ Len(hist) = 3
  /\ hist[1].input = hist[2].input /\ hist[2].input = hist[3].input
  /\ hist[1].result = ErrNonUtf8
  /\ hist[2].result = ErrWalk
  /\ hist[2].pos0 = hist[1].pos1
  /\ DOMAIN hist[2].recipes0 = {} /\ DOMAIN hist[3].recipes0 # {}
  /\ hist[3].pos0 = hist[2].pos1
  /\ hist[3].result.tag = "NotFound" /\ ~hist[3].neg
  /\ non_existent = {hist[3].input}

---------------------------------------------------------------------------
\* Properties of Quantity::fit (checked under SpecQty)

\* the unit of q is already resolved as Known
ResolvedKnown(q) == q.unit.some /\ q.unit.info.t = "Known"

\* C16: fit leaves the quantity unchanged (value, unit text and unit
\* resolution state) and makes no Converter call when the quantity has no
\* unit, when its unit is not resolved yet or when it is resolved as
\* Unknown; the quantity is replaced, by the Converter's same-system
\* conversion, only when the unit is already resolved as Known.
C16_FitOnlyResolvedKnown ==
  qout.op = "fit" =>
    /\ ~ResolvedKnown(qout.a0) => ( qa = qout.a0 /\ qout.converts = 0 )
    /\ ( qa # qout.a0 \/ qout.converts > 0 ) => ResolvedKnown(qout.a0)
    /\ ( ResolvedKnown(qout.a0) /\ ~qout.panic ) =>
         /\ qout.to \in SameSystemUnits(qout.a0.unit.info.unit)
         /\ qa = Convert(qout.a0, qout.a0.unit.info.unit, qout.to, qout.strict).value

\* fit of a quantity in grams whose unit is not resolved yet: the converter
\* knows the unit, but the quantity is left as it was, cell still empty
C16_Witness ==
  /\ qout.op = "fit"
  /\ qout.a0.unit.some
  /\ qout.a0.unit.text = "g"
  /\ qout.a0.unit.info = Unset
  /\ qout.a0.value = Fixed(Number(2000))
  /\ qa = qout.a0
  /\ qout.converts = 0

---------------------------------------------------------------------------
\* all_recipes (cooklang-fs/src/lib.rs)

\* the depth walkdir gives an entry: 0 for base_path
Depth(path) == Len(path) - Len(base_path)

\* the two adapters of all_recipes: errors and non-UTF8 entries are dropped,
\* directories and recipe files are kept
ListingKeeps(it) ==
  /\ it.kind \in {"file", "dir"}
  /\ it.kind = "dir" \/ is_cooklang_file(it)

\* all_recipes with the comparator of FsIndex::new
all_recipes_FilesFirst(tree, maxd) ==
  SelectSeq(WalkEntry(tree, Root(tree), 0, maxd, TRUE), ListingKeeps)

\* all_recipes(base_path, max_depth): everything the iterator yields, in
\* order (WalkDir sorted by file name, then filter_map and filter)
all_recipes(tree, maxd) ==
  SelectSeq(WalkEntry(tree, Root(tree), 0, maxd, FALSE), ListingKeeps)

\* the parent directory of a path
Parent(path) == SubSeq(path, 1, Len(path) - 1)

\* the directory trees listed: base_path with any of the entries of the two
\* trees, every entry together with its parent directory
ListTrees ==
  { t \in SUBSET (TreeDup \cup TreeFault) :
      /\ D(base_path) \in t
      /\ \A e \in t : e.path # base_path => D(Parent(e.path)) \in t }

\* the iterator yields its next entry
AllRecipesNext ==
  /\ listing.pos < Len(listing.items)
  /\ listing' = [listing EXCEPT !.pos = @ + 1]
  /\ UNCHANGED <<fsvars, valvars, qtyvars, unitvars, chkvars, imgvars>>

\* all_recipes(base_path, max_depth) on a tree
InitList ==
  /\ IdleVal /\ IdleQty /\ IdleUnit /\ IdleChk /\ IdleImg
  /\ fs \in ListTrees
  /\ max_depth \in 0..MaxDepth
  /\ walker = [items |-> <<>>, pos |-> 0]
  /\ recipes = EmptyMap /\ non_existent = {} /\ hist = <<>>
  /\ listing = [op |-> "all_recipes", items |-> all_recipes(fs, max_depth),
                pos |-> 0]

NextList == AllRecipesNext

SpecList == InitList /\ [][NextList]_vars

---------------------------------------------------------------------------
\* Properties of all_recipes (checked under SpecList)

\* what the iterator has yielded so far
Listed == SubSeq(listing.items, 1, listing.pos)

Siblings(a, b) == Len(a.path) = Len(b.path) /\ Parent(a.path) = Parent(b.path)

\* path p lies below directory d
Below(p, d) == Len(p) > Len(d) /\ SubSeq(p, 1, Len(d)) = d

\* an entry of the tree that is a directory or a readable .cook file
IsDirOrRecipe(e) ==
  \/ IsDirType(e)
  \/ e.kind = "file" /\ NameExt(FileName(e.path)) = <<"cook">>

\* only directories and recipe files of depth at most max_depth are
\* yielded, each once, and all of them once the iterator is exhausted
ListsDirsAndRecipes ==
  /\ \A i \in 1..Len(Listed) :
       /\ \E e \in fs : e.path = Listed[i].path /\ IsDirOrRecipe(e)
       /\ Depth(Listed[i].path) <= max_depth
       /\ \A j \in 1..Len(Listed) : i # j => Listed[i].path # Listed[j].path
  /\ listing.pos = Len(listing.items) =>
       \A e \in fs :
         ( Depth(e.path) <= max_depth /\ IsDirOrRecipe(e) )
         => \E i \in 1..Len(Listed) : Listed[i].path = e.path

\* a directory is yielded before everything below it, and everything below
\* it before its next sibling
PreOrder ==
  \A i \in 1..Len(Listed) : \A j \in 1..Len(Listed) :
    /\ Below(Listed[j].path, Listed[i].path) => i < j
    /\ \A k \in 1..Len(Listed) :
         ( Siblings(Listed[i], Listed[k]) /\ i < k
           /\ Below(Listed[j].path, Listed[i].path) ) => j < k

\* C17 as claimed: all_recipes yields only directories and recipe files of
\* depth at most max_depth, in the order of the FsIndex walk cursor: within
\* each directory every file before any subdirectory, entries of the same
\* kind in name order.
C17_ListingFilesFirst ==
  listing.op = "all_recipes" =>
    /\ ListsDirsAndRecipes
    /\ PreOrder
    /\ \A i \in 1..Len(Listed) : \A j \in 1..Len(Listed) :
         ( i < j /\ Siblings(Listed[i], Listed[j]) ) =>
           /\ Listed[j].kind = "file" => Listed[i].kind = "file"
           /\ Listed[i].kind = Listed[j].kind
                => NameRank(FileName(Listed[i].path))
                     < NameRank(FileName(Listed[j].path))

\* C17 as amended: all_recipes yields only directories and recipe files of
\* depth at most max_depth, in pre-order with the entries of each directory
\* in file name order, directories and files alike.
C17_ListingByFileName ==
  listing.op = "all_recipes" =>
    /\ ListsDirsAndRecipes
    /\ PreOrder
    /\ \A i \in 1..Len(Listed) : \A j \in 1..Len(Listed) :
         ( i < j /\ Siblings(Listed[i], Listed[j]) ) =>
           NameRank(FileName(Listed[i].path)) < NameRank(FileName(Listed[j].path))

\* a finished listing in which a directory and a recipe file inside it come
\* before a recipe file that is the directory's sibling, and a file that is
\* no recipe was left out
C17_Witness ==
  /\ listing.op = "all_recipes"
  /\ listing.pos = Len(listing.items)
  /\ \E e \in fs : e.kind = "file" /\ Depth(e.path) <= max_depth
                   /\ \A i \in 1..Len(Listed) : Listed[i].path # e.path
  /\ \E i \in 1..Len(Listed) : \E k \in 1..Len(Listed) : \E j \in 1..Len(Listed) :
       /\ i < k /\ k < j
       /\ Listed[i].kind = "dir"
       /\ Listed[k].kind = "file" /\ Below(Listed[k].path, Listed[i].path)
       /\ Listed[j].kind = "file" /\ Siblings(Listed[i], Listed[j])

=============================================================================
